---- MODULE Spec2Model ----
(***************************************************************************)
(* The order, cart and appointment mutations of backend/ecommerce/schema.py *)
(* as a state machine over the tables they read and write.                 *)
(*                                                                         *)
(* Spec          SetCart, OrderCart and OrderProduct, one request at a     *)
(*               time, each mutation run to completion.                    *)
(* SpecCart      SetCart alone, one request at a time.                     *)
(* SpecAppointment  BookAppointment, one request at a time.                *)
(* SpecOrderRace two order placements whose statements interleave.         *)
(* SpecBookRace  two BookAppointment calls whose statements interleave.    *)
(*                                                                         *)
(* No mutation opens a transaction (there is no transaction.atomic in the  *)
(* file), so every save(), create(), add() and delete() is committed when  *)
(* it returns and an exception raised later undoes nothing.                *)
(***************************************************************************)
EXTENDS Integers, Sequences, FiniteSets, TLC

\* Bounds of the model.
MaxRequests == 3        \* requests served in one behaviour of Spec
MaxStock == 1           \* the stock every product starts with
MaxQty == 2             \* largest quantity a request carries
NumDays == 2            \* calendar dates a timestamp can fall on
SlotsPerDay == 3        \* times of day within one date

Users == {"u1", "u2"}
Products == {"p1", "p2"}
\* product_id values a request can carry: the products and one unknown pk
ProductIds == Products \cup {"p0"}
\* address_id values a request can carry
AddressIds == {"a1", "a2"}
\* qty is graphene.Int: zero and negative values are accepted
Qtys == (0 - 1)..MaxQty
\* a timestamp is a point in time; its date is DateOf(timestamp)
Timestamps == 0..(NumDays * SlotsPerDay - 1)
Procs == {1, 2}

\* the Address rows, pk -> owning user: "a2" is a pk that is not in the table
Addresses == [a \in {"a1"} |-> "u1"]

\* price and discount of the catalog; no mutation of the schema writes them
price == [p \in Products |-> IF p = "p1" THEN 100 ELSE 33]
discount == [p \in Products |-> IF p = "p1" THEN 10 ELSE 7]

VARIABLES
    stock,          \* Product.stock, by product
    cart,           \* CartObj rows: (user, product) -> qty
    orders,         \* Order rows, the pk is the index
    orderObjs,      \* OrderObj rows (order, product, qty, price)
    mails,          \* what run_async was handed, in call order
    appointments,   \* Appointment rows, the pk is the index
    last,           \* the latest request and how it ended
    nreq,           \* requests served
    procs,          \* the requests in flight (SpecOrderRace, SpecBookRace)
    initialStock    \* Product.stock when the behaviour began

vars == <<stock, cart, orders, orderObjs, mails, appointments,
          last, nreq, procs, initialStock>>

----------------------------------------------------------------------------
\* Helpers on tables

Put(f, k, v) == [x \in DOMAIN f \cup {k} |-> IF x = k THEN v ELSE f[x]]

Remove(f, k) == [x \in DOMAIN f \ {k} |-> f[x]]

\* CartObj.objects.filter(user=user): the products of the user's cart lines
CartOf(c, u) == {p \in Products : <<u, p>> \in DOMAIN c}

\* the orders in which a queryset without order_by can yield a set of rows
Orderings(S) ==
    {s \in [1..Cardinality(S) -> S] : \A i, j \in DOMAIN s : i # j => s[i] # s[j]}

NoError == "none"

\* how a request ended: the mutation and the exception it raised, if any
Response(op, err) == [op |-> op, error |-> err]

----------------------------------------------------------------------------
\* Pure computations of the mutations

\* the price rounded down instead of up (math.floor for math.ceil)
SalePriceFloor(pr, d) == pr - ((d * pr + 99) \div 100)

\* math.ceil(product.price - (product.discount * product.price) / 100): for
\* integers this is pr minus the floor of d * pr / 100
SalePrice(pr, d) == pr - ((d * pr) \div 100)

\* the stock test off by one: an order of one more than the stock passes
StockErrorOffByOne(available, qty) == available + 1 < qty

\* product.stock < qty, the test that raises "Stock Error"
StockError(available, qty) == available < qty

\* timestamp.date()
DateOf(t) == t \div SlotsPerDay

\* the conflict test on the whole timestamp instead of its date
StartsWithTimestamp(stored, t) == stored = t

\* timestamp__startswith=timestamp.date(): the stored timestamp begins with
\* the date of the requested one
StartsWithDate(stored, t) == DateOf(stored) = DateOf(t)

OrderMails(u, oid) ==
    <<[to |-> u, about |-> <<"order", oid>>],
      [to |-> "admins", about |-> <<"order", oid>>]>>

AppointmentMails(u, aid) ==
    <<[to |-> u, about |-> <<"appointment", aid>>],
      [to |-> "admins", about |-> <<"appointment", aid>>]>>

OrderLine(oid, p, q) ==
    [order |-> oid, product |-> p, qty |-> q, price |-> SalePrice(price[p], discount[p])]

----------------------------------------------------------------------------
\* SetCart.mutate

\* add=true treated as add=false on an existing line (= for +=)
SetCartResultNoAdd(c, u, p, q, add) ==
    IF <<u, p>> \in DOMAIN c
    THEN IF q > 0
         THEN [c EXCEPT ![<<u, p>>] = q]
         ELSE Remove(c, <<u, p>>)
    ELSE IF q > 0 THEN Put(c, <<u, p>>, q) ELSE c

SetCartResult(c, u, p, q, add) ==
    IF <<u, p>> \in DOMAIN c
    THEN IF add
         THEN [c EXCEPT ![<<u, p>>] = @ + q]
         ELSE IF q > 0
              THEN [c EXCEPT ![<<u, p>>] = q]
              ELSE Remove(c, <<u, p>>)
    ELSE IF q > 0 THEN Put(c, <<u, p>>, q) ELSE c

SetCart(u, p, q, add) ==
    /\ nreq < MaxRequests
    /\ cart' = SetCartResult(cart, u, p, q, add)
    /\ last' = Response("SetCart", NoError)
    /\ nreq' = nreq + 1
    /\ UNCHANGED <<stock, orders, orderObjs, mails, appointments,
                   procs, initialStock>>

----------------------------------------------------------------------------
\* OrderCart.mutate

\* the loop over the cart: todo is the order in which the rows come, st the
\* tables as the loop has left them so far
RECURSIVE ProcessCart(_, _, _, _)
ProcessCart(todo, u, oid, st) ==
    IF todo = <<>>
    THEN st
    ELSE LET p == Head(todo)
             q == st.cart[<<u, p>>]
         IN IF StockError(st.stock[p], q)
            THEN [st EXCEPT !.error = "Stock Error"]
            ELSE ProcessCart(Tail(todo), u, oid,
                   [stock |-> [st.stock EXCEPT ![p] = @ - q],
                    cart |-> Remove(st.cart, <<u, p>>),
                    orderObjs |-> st.orderObjs \cup {OrderLine(oid, p, q)},
                    error |-> NoError])

OrderCart(u, a) ==
    /\ nreq < MaxRequests
    /\ nreq' = nreq + 1
    /\ UNCHANGED <<appointments, procs, initialStock>>
    /\ IF a \notin DOMAIN Addresses
       THEN /\ last' = Response("OrderCart", "Address.DoesNotExist")
            /\ UNCHANGED <<stock, cart, orders, orderObjs, mails>>
       ELSE \E todo \in Orderings(CartOf(cart, u)) :
            LET oid == Len(orders) + 1
                st == ProcessCart(todo, u, oid,
                        [stock |-> stock, cart |-> cart,
                         orderObjs |-> orderObjs, error |-> NoError])
            IN /\ orders' = Append(orders, [user |-> u, address |-> a])
               /\ stock' = st.stock
               /\ cart' = st.cart
               /\ orderObjs' = st.orderObjs
               /\ mails' = IF st.error = NoError THEN mails \o OrderMails(u, oid) ELSE mails
               /\ last' = Response("OrderCart", st.error)

----------------------------------------------------------------------------
\* OrderProduct.mutate

OrderProduct(u, a, p, q) ==
    /\ nreq < MaxRequests
    /\ nreq' = nreq + 1
    /\ UNCHANGED <<cart, appointments, procs, initialStock>>
    /\ LET oid == Len(orders) + 1
       IN IF a \notin DOMAIN Addresses
          THEN /\ last' = Response("OrderProduct", "Address.DoesNotExist")
               /\ UNCHANGED <<stock, orders, orderObjs, mails>>
          ELSE /\ orders' = Append(orders, [user |-> u, address |-> a])
               /\ IF p \notin Products
                  THEN /\ last' = Response("OrderProduct", "Product.DoesNotExist")
                       /\ UNCHANGED <<stock, orderObjs, mails>>
                  ELSE IF StockError(stock[p], q)
                  THEN /\ last' = Response("OrderProduct", "Stock Error")
                       /\ UNCHANGED <<stock, orderObjs, mails>>
                  ELSE /\ stock' = [stock EXCEPT ![p] = @ - q]
                       /\ orderObjs' = orderObjs \cup {OrderLine(oid, p, q)}
                       /\ mails' = mails \o OrderMails(u, oid)
                       /\ last' = Response("OrderProduct", NoError)

----------------------------------------------------------------------------
\* BookAppointment.mutate

\* Appointment.objects.filter(timestamp__startswith=timestamp.date())
SameDayAppointments(appts, t) ==
    {i \in DOMAIN appts : StartsWithDate(appts[i].timestamp, t)}

BookAppointment(u, t) ==
    /\ UNCHANGED <<nreq, stock, cart, orders, orderObjs, procs, initialStock>>
    /\ IF Cardinality(SameDayAppointments(appointments, t)) > 0
       THEN /\ last' = Response("BookAppointment", "No slot on that day!")
            /\ UNCHANGED <<appointments, mails>>
       ELSE /\ appointments' = Append(appointments, [user |-> u, timestamp |-> t])
            /\ mails' = mails \o AppointmentMails(u, Len(appointments) + 1)
            /\ last' = Response("BookAppointment", NoError)

----------------------------------------------------------------------------
\* One request at a time

Init ==
    /\ stock = [p \in Products |-> MaxStock]
    /\ initialStock = stock
    /\ cart = <<>>
    /\ orders = <<>>
    /\ orderObjs = {}
    /\ mails = <<>>
    /\ appointments = <<>>
    /\ last = Response("none", NoError)
    /\ nreq = 0
    /\ procs = [i \in Procs |-> [pc |-> "idle"]]

Next ==
    \/ \E u \in Users, p \in Products, q \in Qtys, add \in BOOLEAN : SetCart(u, p, q, add)
    \/ \E u \in Users, a \in AddressIds : OrderCart(u, a)
    \/ \E u \in Users, a \in AddressIds, p \in ProductIds, q \in Qtys : OrderProduct(u, a, p, q)

Spec == Init /\ [][Next]_vars

NextCart ==
    \E u \in Users, p \in Products, q \in Qtys, add \in BOOLEAN : SetCart(u, p, q, add)

SpecCart == Init /\ [][NextCart]_vars

NextAppointment ==
    \E u \in Users, t \in Timestamps : BookAppointment(u, t)

SpecAppointment == Init /\ [][NextAppointment]_vars

----------------------------------------------------------------------------
\* Two requests in flight. Each proc serves one request; every statement of
\* the mutation that reads or writes a table is a step of its own, and the
\* steps of the two procs interleave. last and nreq are not used here.

Failed(i, err) == [procs EXCEPT ![i] = [pc |-> "done", error |-> err]]

\* OrderProduct.mutate up to Order.objects.create
BeginOrderProduct(i, u, a, p, q) ==
    /\ procs[i].pc = "idle"
    /\ IF a \notin DOMAIN Addresses
       THEN /\ procs' = Failed(i, "Address.DoesNotExist")
            /\ UNCHANGED orders
       ELSE /\ orders' = Append(orders, [user |-> u, address |-> a])
            /\ procs' = [procs EXCEPT ![i] =
                  [pc |-> "read", op |-> "OrderProduct", user |-> u,
                   order |-> Len(orders) + 1,
                   todo |-> <<[product |-> p, qty |-> q]>>,
                   read |-> 0, error |-> NoError]]
    /\ UNCHANGED <<stock, cart, orderObjs, mails, appointments, last, nreq, initialStock>>

\* OrderCart.mutate up to the evaluation of the cart queryset by the for loop
BeginOrderCart(i, u, a) ==
    /\ procs[i].pc = "idle"
    /\ IF a \notin DOMAIN Addresses
       THEN /\ procs' = Failed(i, "Address.DoesNotExist")
            /\ UNCHANGED orders
       ELSE \E s \in Orderings(CartOf(cart, u)) :
            /\ orders' = Append(orders, [user |-> u, address |-> a])
            /\ procs' = [procs EXCEPT ![i] =
                  [pc |-> IF s = <<>> THEN "mail" ELSE "read",
                   op |-> "OrderCart", user |-> u,
                   order |-> Len(orders) + 1,
                   todo |-> [k \in DOMAIN s |-> [product |-> s[k], qty |-> cart[<<u, s[k]>>]]],
                   read |-> 0, error |-> NoError]]
    /\ UNCHANGED <<stock, cart, orderObjs, mails, appointments, last, nreq, initialStock>>

\* product = cart_obj.product, product = Product.objects.get(pk=...): the
\* row is copied into the request's own Product object
ReadProduct(i) ==
    /\ procs[i].pc = "read"
    /\ LET p == Head(procs[i].todo).product
       IN IF p \notin Products
          THEN procs' = Failed(i, "Product.DoesNotExist")
          ELSE procs' = [procs EXCEPT ![i].read = stock[p], ![i].pc = "check"]
    /\ UNCHANGED <<stock, cart, orders, orderObjs, mails, appointments, last, nreq, initialStock>>

\* if product.stock < qty: raise Exception("Stock Error")
CheckStock(i) ==
    /\ procs[i].pc = "check"
    /\ IF StockError(procs[i].read, Head(procs[i].todo).qty)
       THEN procs' = Failed(i, "Stock Error")
       ELSE procs' = [procs EXCEPT ![i].pc = "save"]
    /\ UNCHANGED <<stock, cart, orders, orderObjs, mails, appointments, last, nreq, initialStock>>

\* product.stock -= qty; product.save(): the row gets the value computed
\* from the copy
SaveProduct(i) ==
    /\ procs[i].pc = "save"
    /\ LET line == Head(procs[i].todo)
       IN stock' = [stock EXCEPT ![line.product] = procs[i].read - line.qty]
    /\ procs' = [procs EXCEPT ![i].pc = "add"]
    /\ UNCHANGED <<cart, orders, orderObjs, mails, appointments, last, nreq, initialStock>>

\* order.product_objects.add(product.id, through_defaults=...)
AddOrderObj(i) ==
    /\ procs[i].pc = "add"
    /\ LET line == Head(procs[i].todo)
       IN orderObjs' = orderObjs \cup {OrderLine(procs[i].order, line.product, line.qty)}
    /\ procs' = [procs EXCEPT ![i].pc = IF procs[i].op = "OrderCart" THEN "delete" ELSE "mail"]
    /\ UNCHANGED <<stock, cart, orders, mails, appointments, last, nreq, initialStock>>

\* cart_obj.delete(), and on to the next row of the loop
DeleteCartObj(i) ==
    /\ procs[i].pc = "delete"
    /\ cart' = Remove(cart, <<procs[i].user, Head(procs[i].todo).product>>)
    /\ procs' = [procs EXCEPT ![i].todo = Tail(@),
                              ![i].pc = IF Tail(procs[i].todo) = <<>> THEN "mail" ELSE "read"]
    /\ UNCHANGED <<stock, orders, orderObjs, mails, appointments, last, nreq, initialStock>>

\* the two run_async calls and the return
SendOrderMails(i) ==
    /\ procs[i].pc = "mail"
    /\ mails' = mails \o OrderMails(procs[i].user, procs[i].order)
    /\ procs' = [procs EXCEPT ![i].pc = "done"]
    /\ UNCHANGED <<stock, cart, orders, orderObjs, appointments, last, nreq, initialStock>>

\* the carts the requests find: every user has a line for every product
InitOrderRace ==
    /\ stock = [p \in Products |-> MaxStock]
    /\ initialStock = stock
    /\ cart \in [Users \X Products -> 1..MaxQty]
    /\ orders = <<>>
    /\ orderObjs = {}
    /\ mails = <<>>
    /\ appointments = <<>>
    /\ last = Response("none", NoError)
    /\ nreq = 0
    /\ procs = [i \in Procs |-> [pc |-> "idle"]]

NextOrderRace ==
    \E i \in Procs :
        \/ \E u \in Users, a \in AddressIds, p \in ProductIds, q \in 1..MaxQty :
              BeginOrderProduct(i, u, a, p, q)
        \/ \E u \in Users, a \in AddressIds : BeginOrderCart(i, u, a)
        \/ ReadProduct(i)
        \/ CheckStock(i)
        \/ SaveProduct(i)
        \/ AddOrderObj(i)
        \/ DeleteCartObj(i)
        \/ SendOrderMails(i)

SpecOrderRace == InitOrderRace /\ [][NextOrderRace]_vars

\* BookAppointment.mutate up to the test of len(_appoint)
CheckSlot(i, u, t) ==
    /\ procs[i].pc = "idle"
    /\ IF Cardinality(SameDayAppointments(appointments, t)) > 0
       THEN procs' = Failed(i, "No slot on that day!")
       ELSE procs' = [procs EXCEPT ![i] =
               [pc |-> "create", user |-> u, timestamp |-> t, appointment |-> 0,
                error |-> NoError]]
    /\ UNCHANGED <<stock, cart, orders, orderObjs, mails, appointments, last, nreq, initialStock>>

\* Appointment.objects.create(user=user, timestamp=timestamp)
CreateAppointment(i) ==
    /\ procs[i].pc = "create"
    /\ appointments' = Append(appointments,
                              [user |-> procs[i].user, timestamp |-> procs[i].timestamp])
    /\ procs' = [procs EXCEPT ![i].pc = "mail", ![i].appointment = Len(appointments) + 1]
    /\ UNCHANGED <<stock, cart, orders, orderObjs, mails, last, nreq, initialStock>>

\* the two run_async calls and the return
SendAppointmentMails(i) ==
    /\ procs[i].pc = "mail"
    /\ mails' = mails \o AppointmentMails(procs[i].user, procs[i].appointment)
    /\ procs' = [procs EXCEPT ![i].pc = "done"]
    /\ UNCHANGED <<stock, cart, orders, orderObjs, appointments, last, nreq, initialStock>>

NextBookRace ==
    \E i \in Procs :
        \/ \E u \in Users, t \in Timestamps : CheckSlot(i, u, t)
        \/ CreateAppointment(i)
        \/ SendAppointmentMails(i)

SpecBookRace == Init /\ [][NextBookRace]_vars

----------------------------------------------------------------------------
\* Properties of Spec, SpecCart and SpecAppointment (one request at a time)

SlotTaken == "No slot on that day!"

\* C1: whatever sequence of SetCart, OrderCart and OrderProduct requests has
\* been served, with any integer quantities, no product's stock is below 0.
StockNeverNegative == \A p \in Products : stock[p] >= 0

\* an order took the whole stock of a product and the next order was refused
StockNeverNegativeWitness ==
    /\ last.error = "Stock Error"
    /\ \E p \in Products :
          /\ stock[p] = 0
          /\ \E l \in orderObjs : l.product = p /\ l.qty = initialStock[p] /\ l.qty > 0

\* C2: an OrderCart or OrderProduct that ends in the stock error leaves every
\* product's stock and every cart line of the caller as they were.
NoPartialMutationOnStockError ==
    [][/\ \A u \in Users, a \in AddressIds :
             (OrderCart(u, a) /\ last'.error = "Stock Error") =>
                 /\ stock' = stock
                 /\ CartOf(cart', u) = CartOf(cart, u)
                 /\ \A p \in CartOf(cart, u) : cart'[<<u, p>>] = cart[<<u, p>>]
       /\ \A u \in Users, a \in AddressIds, p \in ProductIds, q \in Qtys :
             (OrderProduct(u, a, p, q) /\ last'.error = "Stock Error") =>
                 /\ stock' = stock
                 /\ cart' = cart]_vars

\* C3: an OrderCart or OrderProduct that fails (address not found, product
\* not found, stock error) leaves the Order and OrderObj tables as they were.
FailedOrderLeavesNoRecord ==
    [][(last'.op \in {"OrderCart", "OrderProduct"} /\ last'.error # NoError) =>
           (orders' = orders /\ orderObjs' = orderObjs)]_vars

CartQuantitiesPositive == \A k \in DOMAIN cart : cart[k] > 0

\* the line SetCart is specified to leave for (v, r) when it is called with
\* (u, p, q, add) on cart c: the set holding its quantity, empty for no line
SpecifiedLine(c, u, p, q, add, v, r) ==
    LET had == <<v, r>> \in DOMAIN c
    IN IF <<v, r>> # <<u, p>>
       THEN IF had THEN {c[<<v, r>>]} ELSE {}
       ELSE CASE had /\ add -> {c[<<u, p>>] + q}
              [] had /\ ~add -> IF q > 0 THEN {q} ELSE {}
              [] ~had -> IF q > 0 THEN {q} ELSE {}

\* C8: SetCart(user, productId, qty, add) leaves the cart the reference
\* semantics give: prior + qty on an existing line with add, qty or removal
\* (qty <= 0) on an existing line without add, a new line only for qty > 0,
\* and every other line as it was.
SetCartAsSpecified ==
    [][last'.op = "SetCart" =>
       \A u \in Users, p \in Products, q \in Qtys, add \in BOOLEAN :
          SetCart(u, p, q, add) =>
             /\ DOMAIN cart' \subseteq Users \X Products
             /\ \A v \in Users, r \in Products :
                   SpecifiedLine(cart, u, p, q, add, v, r) =
                      IF <<v, r>> \in DOMAIN cart' THEN {cart'[<<v, r>>]} ELSE {}]_vars

\* SetCart has added to an existing line: no single request carries more
\* than MaxQty
SetCartAsSpecifiedWitness ==
    /\ last.op = "SetCart"
    /\ \E k \in DOMAIN cart : cart[k] > MaxQty

\* ceil(pr - pr * d / 100): the least integer x with 100 * x >= 100 * pr - pr * d
CeilPrice(pr, d) ==
    CHOOSE x \in 0..pr : /\ 100 * x >= 100 * pr - pr * d
                         /\ 100 * (x - 1) < 100 * pr - pr * d

\* C9: a successful OrderCart empties the caller's cart, creates one order
\* with one line per former cart line (same product and quantity, price
\* ceil(price - price * discount / 100)), takes each line's quantity off the
\* product's stock and queues two notifications, one to the user and one to
\* the administrators.
OrderCartPostcondition ==
    [][last' = Response("OrderCart", NoError) =>
       \A u \in Users, a \in AddressIds :
          OrderCart(u, a) =>
             LET oid == Len(orders) + 1
                 lines == CartOf(cart, u)
             IN /\ CartOf(cart', u) = {}
                /\ orders' = Append(orders, [user |-> u, address |-> a])
                /\ orderObjs' \ orderObjs =
                      {[order |-> oid, product |-> p, qty |-> cart[<<u, p>>],
                        price |-> CeilPrice(price[p], discount[p])] : p \in lines}
                /\ orderObjs \subseteq orderObjs'
                /\ \A p \in Products :
                      stock'[p] = IF p \in lines THEN stock[p] - cart[<<u, p>>] ELSE stock[p]
                /\ Len(mails') = Len(mails) + 2
                /\ SubSeq(mails', 1, Len(mails)) = mails
                /\ {mails'[i].to : i \in (Len(mails) + 1)..Len(mails')} = {u, "admins"}]_vars

\* an OrderCart of a cart with a line for every product has succeeded
OrderCartPostconditionWitness ==
    /\ last = Response("OrderCart", NoError)
    /\ {l.product : l \in {m \in orderObjs : m.order = Len(orders)}} = Products
    /\ Len(mails) >= 2

\* C10: no SetCart, OrderCart or OrderProduct step raises a product's stock,
\* and every order line created has a quantity above 0.
StockNeverIncreases ==
    [][/\ \A p \in Products : stock'[p] <= stock[p]
       /\ \A l \in orderObjs' : l.qty > 0]_vars

----------------------------------------------------------------------------
\* Properties of SpecOrderRace and SpecBookRace (two requests in flight)

RECURSIVE TotalQty(_)
TotalQty(lines) ==
    IF lines = {}
    THEN 0
    ELSE LET l == CHOOSE x \in lines : TRUE
         IN l.qty + TotalQty(lines \ {l})

\* C5: however the steps of two order placements interleave, the order lines
\* created for a product never add up to more than the stock it had.
NeverOversold ==
    \A p \in Products :
        TotalQty({l \in orderObjs : l.product = p}) <= initialStock[p]

\* C6: however the steps of two BookAppointment calls interleave, at most one
\* appointment is created per calendar date.
NoDoubleBookingUnderRace ==
    \A d \in 0..(NumDays - 1) :
        Cardinality({i \in DOMAIN appointments : DateOf(appointments[i].timestamp) = d}) <= 1

====
